---- MODULE Spec2Model ----
(***************************************************************************)
(* Model of the order-book streaming pipeline of websocketapi251110.py:    *)
(*   streamers -> central_q -> broadcaster -> {realtime_q, file_q,         *)
(*   db_staging_q} -> batcher -> db_batch_q -> questdb_consumer.           *)
(*                                                                         *)
(* Spec / FairSpec model the queue pipeline (events are opaque there and   *)
(* are numbered in publication order).                                     *)
(* StreamSpec / FairStream / RecoveringStream model the connection loop of *)
(* one streamer (any of the seven variants) and of its tasks; what a       *)
(* streamer publishes goes to out_q, whose contents Spec models.           *)
(***************************************************************************)
EXTENDS Integers, Sequences, FiniteSets, TLC

\* ------------------------------------------------------------------ bounds
\* Number of events the streamers publish in one run of the pipeline model.
MaxEvents == 3

\* batcher(batch_size=..., max_wait=...): the parameters of the batcher, scaled
\* down (the defaults are 100 events and 0.5 s); max_wait is in clock ticks.
batch_size == 3

max_wait == 2

\* Largest symbol_map of the streamer model (symbols are numbered 1..NumSymbols).
NumSymbols == 2

\* Number of faults (failed connects, failed subscriptions, broken or closed
\* connections, messages that raise) the venue injects in one run.
MaxFaults == 2

\* await asyncio.sleep(5) in every streamer's except clause.
BackoffSeconds == 5

\* Largest batch the ingestor model takes from db_batch_q.
MaxBatchLen == 2

\* Prices of the ingestor model are 0..MaxTick (in ticks).
MaxTick == 2

\* Longest updates list given to one upsert_side call.
MaxUpdates == 3

\* Book sides given to snapshot hold prices out of 1..MaxPrice.
MaxPrice == 3

\* Venue symbols given to split_symbol are made of up to MaxParts parts.
MaxParts == 3

\* Longest bids or asks list of a message or REST snapshot of the book model.
MaxLevels == 1

\* lob.snapshot(20) in every publish call.
TopN == 20

\* ------------------------------------------------------------- pipeline state
VARIABLES
    central_q,      \* main: central_q, the streamers' out_q
    dst_queues,     \* broadcaster's *dst_queues: realtime_q, file_q, db_staging_q
    db_batch_q,     \* main: db_batch_q, batcher -> questdb_consumer
    bc_i,           \* broadcaster: 0 = at src_q.get(), i = at dst_queues[i].put(ev)
    bc_ev,          \* broadcaster: the event ev held between get and the puts
    buf,            \* batcher: buf
    batcher_pc,     \* batcher: "wait" = at wait_for(src_q.get()), "flush" = at dst_q.put(buf)
    elapsed,        \* batcher: now - last_flush, saturated at max_wait
    waited,         \* batcher: time spent in the current wait_for, 0..max_wait
    gap,            \* time since the previous arrival on db_staging_q, saturated at max_wait
    fastArrivals,   \* history: every arrival so far came less than max_wait after the previous one
    submitted,      \* history: events put on central_q, in order
    delivered,      \* history: events put on each dst queue, in order
    taken,          \* history: events the batcher took from db_staging_q, in order
    batches,        \* history: batches the batcher put on db_batch_q, in order
    ingested,       \* history: events questdb_consumer iterated over, in order
    \* ---- streamer model
    exchange,       \* BaseStreamer.exchange: which streamer variant runs
    symbols,        \* keys of BaseStreamer.symbol_map
    book_id,        \* BaseStreamer.books: symbol -> identity of its LocalOrderBook
    books_created,  \* number of LocalOrderBook objects constructed so far
    pc,             \* per task: "snapshot", "connect", "subscribe", "read", "sleep", "none"
    delay,          \* per task: seconds of the asyncio.sleep in progress (0 = not sleeping)
    failures,       \* history, per task: exceptions caught since the task last reached its read loop
    faults,         \* history: faults injected so far
    inbound,        \* history, per task: kind of the message handled in the task's latest step
    pubOnConn,      \* history, per task: an event was published on the current connection
    bootstrapped,   \* history, per task: the REST snapshot of this attempt was loaded
    touched,        \* history, per task: the symbols whose books the task's latest step mutated
    \* ---- task group of main()
    task_state,     \* per task of main's tasks list: "running", "returned", "failed", "cancelled"
    main_pc,        \* main: "gather" = at await asyncio.gather(*tasks), "raised", "exited"
    store_error,    \* history: latest error of the QuestDB sender, "none", "row" or "flush"
    \* ---- questdb_consumer, event by event
    q_pc,           \* "get" = at batch_q.get(), "row" = in the for loop, "flush",
                    \* "done" = at batch_q.task_done(), "failed"
    q_batch,        \* batch: the batch taken last
    q_i,            \* position in batch of the event ev the for loop is at
    q_rows,         \* history: rows given to sender.row since the batch was taken
    q_flushes,      \* history: sender.flush() calls since the batch was taken
    \* ---- one call of a pure function
    fn_op,          \* the function called: "split_symbol", "upsert_side", "snapshot",
                    \* or "tags" for the tags of the row of a published event
    fn_in,          \* its arguments ("tags": None, or Some(event) once one is published)
    fn_out,         \* None before the call, Some(result) after it
    \* ---- one streamer task with the contents of its book
    bk_exchange,    \* BaseStreamer.exchange of the task's streamer
    lob,            \* the task's LocalOrderBook: bids, asks, last_update_id
    bk_pc,          \* "snapshot", "connect", "read", "sleep"
    bk_event,       \* the event the latest step published: None or Some(ev)
    bk_last         \* history: kind and venue symbol of the message the latest step
                    \* handled and whether it changed the book, or kind "none"

pipeVars == <<central_q, dst_queues, db_batch_q, bc_i, bc_ev, buf, batcher_pc,
              elapsed, waited, gap, fastArrivals, submitted, delivered, taken,
              batches, ingested>>

streamVars == <<exchange, symbols, book_id, books_created, pc, delay, failures,
                faults, inbound, pubOnConn, bootstrapped, touched>>

mainVars == <<task_state, main_pc, store_error>>

ingestVars == <<q_pc, q_batch, q_i, q_rows, q_flushes>>

fnVars == <<fn_op, fn_in, fn_out>>

bookVars == <<bk_exchange, lob, bk_pc, bk_event, bk_last>>

vars == <<pipeVars, streamVars, mainVars, ingestVars, fnVars, bookVars>>

\* What the actions of one part of the model leave alone: the other parts.
besidesPipe == <<streamVars, mainVars, ingestVars, fnVars, bookVars>>

besidesStream == <<pipeVars, mainVars, ingestVars, fnVars, bookVars>>

besidesMain == <<pipeVars, streamVars, ingestVars, fnVars, bookVars>>

besidesIngest == <<pipeVars, streamVars, mainVars, fnVars, bookVars>>

besidesFn == <<pipeVars, streamVars, mainVars, ingestVars, bookVars>>

besidesBook == <<pipeVars, streamVars, mainVars, ingestVars, fnVars>>

\* ----------------------------------------------------------------- helpers
\* main(): asyncio.Queue() is built without maxsize, i.e. maxsize = 0.
QueueMaxsize == 0

\* broadcaster(central_q, realtime_q, file_q, db_staging_q): the order of dst_queues.
DstNames == <<"realtime_q", "file_q", "db_staging_q">>

DstSet == {DstNames[i] : i \in 1..Len(DstNames)}

\* asyncio.Queue.full(): a queue with maxsize <= 0 is never full.
Full(q) == QueueMaxsize > 0 /\ Len(q) >= QueueMaxsize

Min(a, b) == IF a < b THEN a ELSE b

CeilDiv(n, b) == (n + b - 1) \div b

IsPrefix(s, t) == Len(s) <= Len(t) /\ SubSeq(t, 1, Len(s)) = s

RECURSIVE Flatten(_)
Flatten(bs) == IF bs = <<>> THEN <<>> ELSE Head(bs) \o Flatten(Tail(bs))

NoDuplicates(s) == \A i, j \in 1..Len(s) : i # j => s[i] # s[j]

\* ----------------------------------------------------------------- Init
PipeInit ==
    /\ central_q = <<>>
    /\ dst_queues = [n \in DstSet |-> <<>>]
    /\ db_batch_q = <<>>
    /\ bc_i = 0
    /\ bc_ev = 0
    /\ buf = <<>>
    /\ batcher_pc = "wait"
    /\ elapsed = 0
    /\ waited = 0
    /\ gap = 0
    /\ fastArrivals = TRUE
    /\ submitted = <<>>
    /\ delivered = [n \in DstSet |-> <<>>]
    /\ taken = <<>>
    /\ batches = <<>>
    /\ ingested = <<>>

\* --------------------------------------------------------- streamer structure
\* main(): the seven streamers.
Exchanges == {"binance", "okx", "bybit", "upbit", "bithumb", "coinone", "korbit"}

TaskIds == 1..NumSymbols

\* BinanceStreamer.run, BybitStreamer.run: one _one task per symbol (task s serves
\* symbol s); every other run() is a single task serving all symbols.
PerSymbol(e) == e \in {"binance", "bybit"}

Tasks(e, syms) == IF PerSymbol(e) THEN syms ELSE {1}

\* The symbols whose books task t touches.
Owned(t) == IF PerSymbol(exchange) THEN {t} ELSE symbols

\* First step of each pass of the while True loop: Bybit fetches its REST
\* snapshot, the others open the websocket.
StartPc(e) == IF e = "bybit" THEN "snapshot" ELSE "connect"

\* Binance subscribes through the URL; every other variant sends a subscription.
AfterConnectPc(e) == IF e = "binance" THEN "read" ELSE "subscribe"

\* Kinds of inbound frames: not JSON at all; a book message in which a field the
\* handler reads by subscript or unpacking is missing or mis-shaped; a JSON
\* message that is no book message (ack, heartbeat); a well-formed book message.
MsgKinds == {"invalid_json", "bad_shape", "non_book", "book"}

Malformed == {"invalid_json", "bad_shape"}

\* Venue symbol of a message: an owned symbol, or 0 for one not in symbol_map.
MsgSyms == {0} \cup (1..NumSymbols)

\* BaseStreamer.__init__ for streamer e with a symbol_map over syms, and the tasks
\* run() starts, each at the top of its loop.
StreamStart(e, syms) ==
    /\ exchange = e
    /\ symbols = syms
    /\ book_id = [s \in 1..NumSymbols |-> IF s \in syms THEN s ELSE 0]
    /\ books_created = Cardinality(syms)
    /\ pc = [t \in TaskIds |-> IF t \in Tasks(e, syms) THEN StartPc(e) ELSE "none"]
    /\ delay = [t \in TaskIds |-> 0]
    /\ failures = [t \in TaskIds |-> 0]
    /\ faults = 0
    /\ inbound = [t \in TaskIds |-> "none"]
    /\ pubOnConn = [t \in TaskIds |-> FALSE]
    /\ bootstrapped = [t \in TaskIds |-> FALSE]
    /\ touched = [t \in TaskIds |-> {}]

\* main(): the tasks list, one task per streamer's run() and one per pipeline
\* coroutine.
PipelineTasks == {"broadcaster", "realtime_consumer", "file_consumer", "batcher",
                  "questdb_consumer"}

TaskNames == Exchanges \cup PipelineTasks

\* main() after the tasks are created: every task runs, main awaits gather.
MainStart ==
    /\ task_state = [t \in TaskNames |-> "running"]
    /\ main_pc = "gather"
    /\ store_error = "none"

\* questdb_consumer after Sender.from_conf: at its first batch_q.get().
IngestStart ==
    /\ q_pc = "get"
    /\ q_batch = <<>>
    /\ q_i = 0
    /\ q_rows = <<>>
    /\ q_flushes = 0

\* A task of streamer e at the top of its while True loop, its book as
\* LocalOrderBook.__init__ leaves it.
BookStart(e) ==
    /\ bk_exchange = e
    /\ lob = [bids |-> <<>>, asks |-> <<>>, last_update_id |-> 0]
    /\ bk_pc = StartPc(e)
    /\ bk_event = <<>>
    /\ bk_last = [kind |-> "none"]

\* No pure function is under test.
NoCall ==
    /\ fn_op = "none"
    /\ fn_in = <<>>
    /\ fn_out = <<>>

\* The parts of the program a specification does not move stay as constructed.
Init ==
    /\ PipeInit
    /\ StreamStart("binance", 1..NumSymbols)
    /\ MainStart
    /\ IngestStart
    /\ NoCall
    /\ BookStart("binance")

\* Any one streamer variant, with a symbol_map of 1..NumSymbols symbols.
StreamInit ==
    /\ PipeInit
    /\ \E e \in Exchanges : \E n \in 1..NumSymbols : StreamStart(e, 1..n)
    /\ MainStart
    /\ IngestStart
    /\ NoCall
    /\ BookStart("binance")

\* ------------------------------------------------------------- streamer edge
\* BaseStreamer.publish: await self.out_q.put(ev). The event is the next one in
\* publication order.
Publish ==
    /\ Len(submitted) < MaxEvents
    /\ ~Full(central_q)
    /\ LET ev == Len(submitted) + 1 IN
        /\ central_q' = Append(central_q, ev)
        /\ submitted' = Append(submitted, ev)
    /\ UNCHANGED <<dst_queues, db_batch_q, bc_i, bc_ev, buf, batcher_pc, elapsed,
                   waited, gap, fastArrivals, delivered, taken, batches, ingested>>
    /\ UNCHANGED besidesPipe

\* ---------------------------------------------------------------- broadcaster
\* ev = await src_q.get()
BroadcasterGet ==
    /\ bc_i = 0
    /\ central_q # <<>>
    /\ bc_ev' = Head(central_q)
    /\ central_q' = Tail(central_q)
    /\ bc_i' = 1
    /\ UNCHANGED <<dst_queues, db_batch_q, buf, batcher_pc, elapsed, waited, gap,
                   fastArrivals, submitted, delivered, taken, batches, ingested>>
    /\ UNCHANGED besidesPipe

\* A put that drops the event when the destination still holds unconsumed events.
BroadcasterPutDropping ==
    /\ bc_i \in 1..Len(DstNames)
    /\ LET n == DstNames[bc_i] IN
        /\ dst_queues' = IF dst_queues[n] = <<>>
                         THEN [dst_queues EXCEPT ![n] = Append(@, bc_ev)]
                         ELSE dst_queues
        /\ delivered' = IF dst_queues[n] = <<>>
                        THEN [delivered EXCEPT ![n] = Append(@, bc_ev)]
                        ELSE delivered
        /\ gap' = IF n = "db_staging_q" THEN 0 ELSE gap
        /\ fastArrivals' = fastArrivals
    /\ bc_i' = IF bc_i = Len(DstNames) THEN 0 ELSE bc_i + 1
    /\ UNCHANGED <<central_q, db_batch_q, bc_ev, buf, batcher_pc, elapsed, waited,
                   submitted, taken, batches, ingested>>
    /\ UNCHANGED besidesPipe

\* for q in dst_queues: await q.put(ev)   (one iteration); after the last
\* iteration src_q.task_done() and back to src_q.get().
BroadcasterPut ==
    /\ bc_i \in 1..Len(DstNames)
    /\ LET n == DstNames[bc_i] IN
        /\ ~Full(dst_queues[n])
        /\ dst_queues' = [dst_queues EXCEPT ![n] = Append(@, bc_ev)]
        /\ delivered' = [delivered EXCEPT ![n] = Append(@, bc_ev)]
        /\ gap' = IF n = "db_staging_q" THEN 0 ELSE gap
        /\ fastArrivals' = IF n = "db_staging_q"
                           THEN fastArrivals /\ gap < max_wait
                           ELSE fastArrivals
    /\ bc_i' = IF bc_i = Len(DstNames) THEN 0 ELSE bc_i + 1
    /\ UNCHANGED <<central_q, db_batch_q, bc_ev, buf, batcher_pc, elapsed, waited,
                   submitted, taken, batches, ingested>>
    /\ UNCHANGED besidesPipe

\* ------------------------------------------------------------------ consumers
\* realtime_consumer: ev = await q.get(); ...; q.task_done()
RealtimeConsumer ==
    /\ dst_queues["realtime_q"] # <<>>
    /\ dst_queues' = [dst_queues EXCEPT !["realtime_q"] = Tail(@)]
    /\ UNCHANGED <<central_q, db_batch_q, bc_i, bc_ev, buf, batcher_pc, elapsed,
                   waited, gap, fastArrivals, submitted, delivered, taken, batches,
                   ingested>>
    /\ UNCHANGED besidesPipe

\* file_consumer: ev = await q.get(); f.write(...); q.task_done()
FileConsumer ==
    /\ dst_queues["file_q"] # <<>>
    /\ dst_queues' = [dst_queues EXCEPT !["file_q"] = Tail(@)]
    /\ UNCHANGED <<central_q, db_batch_q, bc_i, bc_ev, buf, batcher_pc, elapsed,
                   waited, gap, fastArrivals, submitted, delivered, taken, batches,
                   ingested>>
    /\ UNCHANGED besidesPipe

\* -------------------------------------------------------------------- batcher
\* buf.append(ev) placing the event in front of the buffer.
BufPrepend(b, ev) == <<ev>> \o b

\* buf.append(ev)
BufAppend(b, ev) == Append(b, ev)

\* Flush test without the time clause.
ShouldFlushSizeOnly(b, el) == Len(b) >= batch_size /\ b # <<>>

\* Flush test without the emptiness guards.
ShouldFlushUnguarded(b, el) == Len(b) >= batch_size \/ el >= max_wait

\* should_flush and buf, with should_flush as computed from len(buf), now - last_flush.
ShouldFlush(b, el) ==
    (Len(b) >= batch_size \/ (b # <<>> /\ el >= max_wait)) /\ b # <<>>

\* wait_for returning an event with the flush test done only on the timeout path.
BatcherGetNoFlushTest ==
    /\ batcher_pc = "wait"
    /\ dst_queues["db_staging_q"] # <<>>
    /\ LET ev == Head(dst_queues["db_staging_q"]) IN
        /\ dst_queues' = [dst_queues EXCEPT !["db_staging_q"] = Tail(@)]
        /\ taken' = Append(taken, ev)
        /\ buf' = BufAppend(buf, ev)
        /\ batcher_pc' = "wait"
    /\ waited' = 0
    /\ UNCHANGED <<central_q, db_batch_q, bc_i, bc_ev, elapsed, gap, fastArrivals,
                   submitted, delivered, batches, ingested>>
    /\ UNCHANGED besidesPipe

\* ev = await asyncio.wait_for(src_q.get(), timeout=max_wait) returning an event;
\* buf.append(ev); src_q.task_done(); then the flush test.
BatcherGet ==
    /\ batcher_pc = "wait"
    /\ dst_queues["db_staging_q"] # <<>>
    /\ LET ev == Head(dst_queues["db_staging_q"])
           b1 == BufAppend(buf, ev)
       IN
        /\ dst_queues' = [dst_queues EXCEPT !["db_staging_q"] = Tail(@)]
        /\ taken' = Append(taken, ev)
        /\ buf' = b1
        /\ batcher_pc' = IF ShouldFlush(b1, elapsed) THEN "flush" ELSE "wait"
    /\ waited' = 0
    /\ UNCHANGED <<central_q, db_batch_q, bc_i, bc_ev, elapsed, gap, fastArrivals,
                   submitted, delivered, batches, ingested>>
    /\ UNCHANGED besidesPipe

\* wait_for raises asyncio.TimeoutError after max_wait without an event; then the
\* flush test.
BatcherTimeout ==
    /\ batcher_pc = "wait"
    /\ dst_queues["db_staging_q"] = <<>>
    /\ waited >= max_wait
    /\ batcher_pc' = IF ShouldFlush(buf, elapsed) THEN "flush" ELSE "wait"
    /\ waited' = 0
    /\ UNCHANGED <<central_q, dst_queues, db_batch_q, bc_i, bc_ev, buf, elapsed, gap,
                   fastArrivals, submitted, delivered, taken, batches, ingested>>
    /\ UNCHANGED besidesPipe

\* A flush that leaves the buffer as it is.
BatcherFlushKeepBuf ==
    /\ batcher_pc = "flush"
    /\ ~Full(db_batch_q)
    /\ db_batch_q' = Append(db_batch_q, buf)
    /\ batches' = Append(batches, buf)
    /\ elapsed' = 0
    /\ batcher_pc' = "wait"
    /\ UNCHANGED <<central_q, dst_queues, bc_i, bc_ev, buf, waited, gap, fastArrivals,
                   submitted, delivered, taken, ingested>>
    /\ UNCHANGED besidesPipe

\* await dst_q.put(buf); buf = []; last_flush = now
BatcherFlush ==
    /\ batcher_pc = "flush"
    /\ ~Full(db_batch_q)
    /\ db_batch_q' = Append(db_batch_q, buf)
    /\ batches' = Append(batches, buf)
    /\ buf' = <<>>
    /\ elapsed' = 0
    /\ batcher_pc' = "wait"
    /\ UNCHANGED <<central_q, dst_queues, bc_i, bc_ev, waited, gap, fastArrivals,
                   submitted, delivered, taken, ingested>>
    /\ UNCHANGED besidesPipe

\* ----------------------------------------------------------- questdb_consumer
\* batch = await batch_q.get(); for ev in batch: ...; sender.flush(); task_done()
QuestdbConsumer ==
    /\ db_batch_q # <<>>
    /\ ingested' = ingested \o Head(db_batch_q)
    /\ db_batch_q' = Tail(db_batch_q)
    /\ UNCHANGED <<central_q, dst_queues, bc_i, bc_ev, buf, batcher_pc, elapsed,
                   waited, gap, fastArrivals, submitted, delivered, taken, batches>>
    /\ UNCHANGED besidesPipe

\* ---------------------------------------------------------------------- clock
\* One tick of time.time(). The batcher's wait_for returns as soon as an event is
\* queued and times out after max_wait, and its flush does not suspend (db_batch_q
\* is never full), so time passes only while the batcher waits on an empty queue
\* with its timeout still pending.
Tick ==
    /\ batcher_pc = "wait"
    /\ dst_queues["db_staging_q"] = <<>>
    /\ waited < max_wait
    /\ waited' = waited + 1
    /\ elapsed' = Min(elapsed + 1, max_wait)
    /\ gap' = Min(gap + 1, max_wait)
    /\ UNCHANGED <<central_q, dst_queues, db_batch_q, bc_i, bc_ev, buf, batcher_pc,
                   fastArrivals, submitted, delivered, taken, batches, ingested>>
    /\ UNCHANGED besidesPipe

\* ------------------------------------------------------------------ streamers
\* What handling a message of kind k for venue symbol sym does in streamer e:
\* "raise" (an exception leaves the read loop), "continue" (the message is
\* skipped) or "publish" (the book is updated and one event is published).
\*   json.loads(raw) raises on invalid JSON in every variant; Binance subscripts
\*   ["data"] on every frame; the multiplexed variants skip non-book messages and
\*   messages whose symbol _find_unified does not resolve; Binance and Bybit
\*   tasks apply every book message to their own book.
Outcome(e, k, known) ==
    CASE k = "invalid_json" -> "raise"
      [] k = "bad_shape" -> "raise"
      [] k = "non_book" -> IF e = "binance" THEN "raise" ELSE "continue"
      [] OTHER -> IF PerSymbol(e) \/ known THEN "publish" ELSE "continue"

Handle(e, k, sym) == Outcome(e, k, sym \in symbols)

\* An except clause that gives up after the first retry.
ExceptHandlerGivingUp(t) ==
    /\ pc' = [pc EXCEPT ![t] = IF failures[t] >= 1 THEN "none" ELSE "sleep"]
    /\ delay' = [delay EXCEPT ![t] = IF failures[t] >= 1 THEN 0 ELSE BackoffSeconds]
    /\ failures' = [failures EXCEPT ![t] = @ + 1]
    /\ faults' = faults + 1
    /\ pubOnConn' = [pubOnConn EXCEPT ![t] = FALSE]

\* except Exception as e: print(...); await asyncio.sleep(5)   (the websocket's
\* async with has been left, so the connection is closed).
ExceptHandler(t) ==
    /\ pc' = [pc EXCEPT ![t] = "sleep"]
    /\ delay' = [delay EXCEPT ![t] = BackoffSeconds]
    /\ failures' = [failures EXCEPT ![t] = @ + 1]
    /\ faults' = faults + 1
    /\ pubOnConn' = [pubOnConn EXCEPT ![t] = FALSE]

\* Bybit: the REST snapshot answers retCode == 0; both sides of the book and
\* last_update_id are replaced.
SnapshotOk(t) ==
    /\ pc[t] = "snapshot"
    /\ pc' = [pc EXCEPT ![t] = "connect"]
    /\ bootstrapped' = [bootstrapped EXCEPT ![t] = TRUE]
    /\ inbound' = [inbound EXCEPT ![t] = "none"]
    /\ UNCHANGED <<exchange, symbols, book_id, books_created, delay, failures,
                   faults, pubOnConn>>
    /\ touched' = [touched EXCEPT ![t] = Owned(t)]
    /\ UNCHANGED besidesStream

\* Bybit: the REST snapshot answers another retCode; the book is left as it is
\* and the task goes on to connect.
SnapshotRejected(t) ==
    /\ pc[t] = "snapshot"
    /\ pc' = [pc EXCEPT ![t] = "connect"]
    /\ bootstrapped' = [bootstrapped EXCEPT ![t] = FALSE]
    /\ inbound' = [inbound EXCEPT ![t] = "none"]
    /\ UNCHANGED <<exchange, symbols, book_id, books_created, delay, failures,
                   faults, pubOnConn>>
    /\ touched' = [touched EXCEPT ![t] = {}]
    /\ UNCHANGED besidesStream

\* Bybit: the REST request or the decoding of its answer raises.
SnapshotFail(t) ==
    /\ pc[t] = "snapshot"
    /\ faults < MaxFaults
    /\ ExceptHandler(t)
    /\ bootstrapped' = [bootstrapped EXCEPT ![t] = FALSE]
    /\ inbound' = [inbound EXCEPT ![t] = "none"]
    /\ UNCHANGED <<exchange, symbols, book_id, books_created>>
    /\ touched' = [touched EXCEPT ![t] = {}]
    /\ UNCHANGED besidesStream

\* A connect that builds a fresh LocalOrderBook for each symbol it serves.
ConnectOkNewBook(t) ==
    /\ pc[t] = "connect"
    /\ pc' = [pc EXCEPT ![t] = AfterConnectPc(exchange)]
    /\ failures' = [failures EXCEPT ![t] = IF exchange = "binance" THEN 0 ELSE @]
    /\ inbound' = [inbound EXCEPT ![t] = "none"]
    /\ pubOnConn' = [pubOnConn EXCEPT ![t] = FALSE]
    /\ book_id' = [s \in 1..NumSymbols |->
                     IF s \in Owned(t) THEN book_id[s] + NumSymbols ELSE book_id[s]]
    /\ books_created' = books_created + Cardinality(Owned(t))
    /\ UNCHANGED <<exchange, symbols, delay, faults, bootstrapped>>
    /\ touched' = [touched EXCEPT ![t] = {}]
    /\ UNCHANGED besidesStream

\* async with websockets.connect(...) as ws: succeeds. The books are the ones
\* built in __init__.
ConnectOk(t) ==
    /\ pc[t] = "connect"
    /\ pc' = [pc EXCEPT ![t] = AfterConnectPc(exchange)]
    /\ failures' = [failures EXCEPT ![t] = IF exchange = "binance" THEN 0 ELSE @]
    /\ inbound' = [inbound EXCEPT ![t] = "none"]
    /\ pubOnConn' = [pubOnConn EXCEPT ![t] = FALSE]
    /\ UNCHANGED <<exchange, symbols, book_id, books_created, delay, faults,
                   bootstrapped>>
    /\ touched' = [touched EXCEPT ![t] = {}]
    /\ UNCHANGED besidesStream

\* websockets.connect raises (refused, reset, timeout).
ConnectFail(t) ==
    /\ pc[t] = "connect"
    /\ faults < MaxFaults
    /\ ExceptHandler(t)
    /\ inbound' = [inbound EXCEPT ![t] = "none"]
    /\ UNCHANGED <<exchange, symbols, book_id, books_created, bootstrapped>>
    /\ touched' = [touched EXCEPT ![t] = {}]
    /\ UNCHANGED besidesStream

\* await ws.send(json.dumps(sub)) for every subscription message succeeds.
SubscribeOk(t) ==
    /\ pc[t] = "subscribe"
    /\ pc' = [pc EXCEPT ![t] = "read"]
    /\ failures' = [failures EXCEPT ![t] = 0]
    /\ inbound' = [inbound EXCEPT ![t] = "none"]
    /\ UNCHANGED <<exchange, symbols, book_id, books_created, delay, faults,
                   pubOnConn, bootstrapped>>
    /\ touched' = [touched EXCEPT ![t] = {}]
    /\ UNCHANGED besidesStream

\* Building or sending a subscription raises.
SubscribeFail(t) ==
    /\ pc[t] = "subscribe"
    /\ faults < MaxFaults
    /\ ExceptHandler(t)
    /\ inbound' = [inbound EXCEPT ![t] = "none"]
    /\ UNCHANGED <<exchange, symbols, book_id, books_created, bootstrapped>>
    /\ touched' = [touched EXCEPT ![t] = {}]
    /\ UNCHANGED besidesStream

\* The books a message that makes the handler raise may have mutated before the
\* exception: a mis-shaped book message raises before or after its first
\* assignment to the book it resolves to; an invalid frame raises in json.loads.
PartlyApplied(e, k, sym) ==
    IF k = "bad_shape" /\ (PerSymbol(e) \/ sym \in symbols)
    THEN {{}, {sym}}
    ELSE {{}}

\* A per-symbol task that applies a message to the book of the symbol the
\* message names.
RecvMsgAnyBook(t, k, sym) ==
    /\ pc[t] = "read"
    /\ inbound' = [inbound EXCEPT ![t] = k]
    /\ CASE Handle(exchange, k, sym) = "raise" ->
              /\ faults < MaxFaults
              /\ ExceptHandler(t)
              /\ \E mutated \in PartlyApplied(exchange, k, sym) :
                    touched' = [touched EXCEPT ![t] = mutated]
         [] Handle(exchange, k, sym) = "continue" ->
              /\ touched' = [touched EXCEPT ![t] = {}]
              /\ UNCHANGED <<pc, delay, failures, faults, pubOnConn>>
         [] OTHER ->
              /\ pubOnConn' = [pubOnConn EXCEPT ![t] = TRUE]
              /\ touched' = [touched EXCEPT ![t] = {sym}]
              /\ UNCHANGED <<pc, delay, failures, faults>>
    /\ UNCHANGED <<exchange, symbols, book_id, books_created, bootstrapped>>
    /\ UNCHANGED besidesStream

\* One iteration of async for raw in ws: a frame of kind k for venue symbol sym.
\* (_one applies every message to lob = self.books[unified_sym], whatever the
\* message names; the multiplexed run() to self.books[unified].)
RecvMsg(t, k, sym) ==
    /\ pc[t] = "read"
    /\ PerSymbol(exchange) => sym = t
    /\ inbound' = [inbound EXCEPT ![t] = k]
    /\ CASE Handle(exchange, k, sym) = "raise" ->
              /\ faults < MaxFaults
              /\ ExceptHandler(t)
              /\ \E mutated \in PartlyApplied(exchange, k, sym) :
                    touched' = [touched EXCEPT ![t] = mutated]
         [] Handle(exchange, k, sym) = "continue" ->
              /\ touched' = [touched EXCEPT ![t] = {}]
              /\ UNCHANGED <<pc, delay, failures, faults, pubOnConn>>
         [] OTHER ->
              /\ pubOnConn' = [pubOnConn EXCEPT ![t] = TRUE]
              /\ touched' = [touched EXCEPT ![t] = {sym}]
              /\ UNCHANGED <<pc, delay, failures, faults>>
    /\ UNCHANGED <<exchange, symbols, book_id, books_created, bootstrapped>>
    /\ UNCHANGED besidesStream

\* async for raises: the connection broke (ConnectionClosedError, ping timeout).
ReadFail(t) ==
    /\ pc[t] = "read"
    /\ faults < MaxFaults
    /\ ExceptHandler(t)
    /\ inbound' = [inbound EXCEPT ![t] = "none"]
    /\ UNCHANGED <<exchange, symbols, book_id, books_created, bootstrapped>>
    /\ touched' = [touched EXCEPT ![t] = {}]
    /\ UNCHANGED besidesStream

\* async for ends normally: the server closed the connection cleanly; the
\* while True loop starts its next pass.
ServerClose(t) ==
    /\ pc[t] = "read"
    /\ faults < MaxFaults
    /\ faults' = faults + 1
    /\ pc' = [pc EXCEPT ![t] = StartPc(exchange)]
    /\ inbound' = [inbound EXCEPT ![t] = "none"]
    /\ pubOnConn' = [pubOnConn EXCEPT ![t] = FALSE]
    /\ UNCHANGED <<exchange, symbols, book_id, books_created, delay, failures,
                   bootstrapped>>
    /\ touched' = [touched EXCEPT ![t] = {}]
    /\ UNCHANGED besidesStream

\* asyncio.sleep(5) returns; the while True loop starts its next pass.
Wake(t) ==
    /\ pc[t] = "sleep"
    /\ pc' = [pc EXCEPT ![t] = StartPc(exchange)]
    /\ delay' = [delay EXCEPT ![t] = 0]
    /\ inbound' = [inbound EXCEPT ![t] = "none"]
    /\ UNCHANGED <<exchange, symbols, book_id, books_created, failures, faults,
                   pubOnConn, bootstrapped>>
    /\ touched' = [touched EXCEPT ![t] = {}]
    /\ UNCHANGED besidesStream

\* A well-formed book message for a symbol the task serves.
RecvPublish(t) == \E sym \in Owned(t) : RecvMsg(t, "book", sym)

\* ------------------------------------------------------------- specifications
Next ==
    \/ Publish
    \/ BroadcasterGet
    \/ BroadcasterPut
    \/ RealtimeConsumer
    \/ FileConsumer
    \/ BatcherGet
    \/ BatcherTimeout
    \/ BatcherFlush
    \/ QuestdbConsumer
    \/ Tick

Spec == Init /\ [][Next]_vars

\* Every task of asyncio.gather(*tasks) keeps being scheduled, and time passes.
FairSpec ==
    /\ Spec
    /\ WF_pipeVars(BroadcasterGet)
    /\ WF_pipeVars(BroadcasterPut)
    /\ WF_pipeVars(BatcherGet)
    /\ WF_pipeVars(BatcherTimeout)
    /\ WF_pipeVars(BatcherFlush)
    /\ WF_pipeVars(Tick)

StreamNext ==
    \/ \E t \in TaskIds : SnapshotOk(t)
    \/ \E t \in TaskIds : SnapshotRejected(t)
    \/ \E t \in TaskIds : SnapshotFail(t)
    \/ \E t \in TaskIds : ConnectOk(t)
    \/ \E t \in TaskIds : ConnectFail(t)
    \/ \E t \in TaskIds : SubscribeOk(t)
    \/ \E t \in TaskIds : SubscribeFail(t)
    \/ \E t \in TaskIds : \E k \in MsgKinds : \E sym \in MsgSyms : RecvMsg(t, k, sym)
    \/ \E t \in TaskIds : ReadFail(t)
    \/ \E t \in TaskIds : ServerClose(t)
    \/ \E t \in TaskIds : Wake(t)

StreamSpec == StreamInit /\ [][StreamNext]_vars

\* The event loop resumes every sleeping task.
FairStream == StreamSpec /\ \A t \in TaskIds : WF_streamVars(Wake(t))

\* The venue recovers: once its faults are spent, connecting, subscribing and
\* the snapshot request succeed and well-formed book messages arrive.
RecoveringStream ==
    /\ FairStream
    /\ \A t \in TaskIds :
        /\ WF_streamVars(SnapshotOk(t))
        /\ WF_streamVars(ConnectOk(t))
        /\ WF_streamVars(SubscribeOk(t))
        /\ WF_streamVars(RecvPublish(t))

\* ------------------------------------------------------------ run() as a task
\* BinanceStreamer.run, BybitStreamer.run: await asyncio.gather(*tasks) returns
\* once every _one task it awaits is done, and at once for an empty tasks list;
\* run() then returns None and the streamer's task of main is done. (The run()
\* of every other variant is the while True loop itself.)
RunReturns ==
    /\ PerSymbol(exchange)
    /\ task_state[exchange] = "running"
    /\ \A t \in TaskIds : pc[t] = "none"
    /\ task_state' = [task_state EXCEPT ![exchange] = "returned"]
    /\ UNCHANGED <<main_pc, store_error>>
    /\ UNCHANGED besidesMain

\* Any one streamer variant with a symbol_map of 0..NumSymbols symbols.
RunInit ==
    /\ PipeInit
    /\ \E e \in Exchanges : \E n \in 0..NumSymbols : StreamStart(e, 1..n)
    /\ MainStart
    /\ IngestStart
    /\ NoCall
    /\ BookStart("binance")

RunNext == StreamNext \/ RunReturns

RunSpec == RunInit /\ [][RunNext]_vars

\* ------------------------------------------------------- task group of main()
\* An exception leaves a streamer's run(): every run() catches Exception inside
\* its while True loop, so this is an exception raised by the except clause
\* itself (its print to a closed or non-encoding stdout) or one that is not an
\* Exception. The task is done with that exception.
StreamerRaises(s) ==
    /\ main_pc # "exited"
    /\ task_state[s] = "running"
    /\ task_state' = [task_state EXCEPT ![s] = "failed"]
    /\ UNCHANGED <<main_pc, store_error>>
    /\ UNCHANGED besidesMain

\* questdb_consumer: sender.row(...) raises inside the try of the for loop; the
\* except clause prints and continues with the next event.
RowRaises ==
    /\ task_state["questdb_consumer"] = "running"
    /\ store_error' = "row"
    /\ UNCHANGED <<task_state, main_pc>>
    /\ UNCHANGED besidesMain

\* questdb_consumer: sender.flush() raises; the call stands after the for loop,
\* outside every try, so the exception leaves the coroutine.
FlushRaises ==
    /\ main_pc # "exited"
    /\ task_state["questdb_consumer"] = "running"
    /\ store_error' = "flush"
    /\ task_state' = [task_state EXCEPT !["questdb_consumer"] = "failed"]
    /\ UNCHANGED main_pc
    /\ UNCHANGED besidesMain

\* await asyncio.gather(*tasks), return_exceptions left False: the first
\* exception of any task is raised in main; the other tasks are not cancelled
\* by gather. main catches asyncio.CancelledError only.
GatherRaises ==
    /\ main_pc = "gather"
    /\ \E t \in TaskNames : task_state[t] = "failed"
    /\ main_pc' = "raised"
    /\ UNCHANGED <<task_state, store_error>>
    /\ UNCHANGED besidesMain

\* asyncio.run(main()): main has ended with the exception; the runner cancels
\* every task that is not done and closes the loop.
RunnerShutdown ==
    /\ main_pc = "raised"
    /\ main_pc' = "exited"
    /\ task_state' = [t \in TaskNames |->
                        IF task_state[t] = "running" THEN "cancelled" ELSE task_state[t]]
    /\ UNCHANGED store_error
    /\ UNCHANGED besidesMain

MainNext ==
    \/ \E s \in Exchanges : StreamerRaises(s)
    \/ RowRaises
    \/ FlushRaises
    \/ GatherRaises
    \/ RunnerShutdown

MainSpec == Init /\ [][MainNext]_vars

\* ------------------------------------------------ questdb_consumer, per event
\* Python's None, and a value that is not None.
None == <<>>

Some(v) == <<v>>

\* bool(x) of an optional float: None and 0.0 are false.
Truthy(o) == o # None /\ o[1] # 0

\* depth["bids"], depth["asks"] of an event: the snapshot's (price, qty) levels,
\* best level first.
DepthSides == {<<>>} \cup {<< <<p, 1>> >> : p \in 0..MaxTick}

\* An event of a batch. ok = FALSE: a statement of the try body raises for it
\* (a missing "seq", "recv_ts" or "event_ts" key, a value int() or float()
\* rejects, a split_symbol that raises, a sender.row that raises).
Events == [bids : DepthSides, asks : DepthSides, ok : BOOLEAN]

\* The batches of n events; the batcher emits non-empty batches only.
Batches(n) == [1..n -> Events]

\* best_bid = float(bids[0][0]) if bids else None
BestPrice(side) == IF side = <<>> THEN None ELSE Some(side[1][1])

\* Exact quotients are pairs <<numerator, denominator>>.
RatEq(a, b) == a[1] * b[2] = b[1] * a[2]

\* mid_price, spread_bps = None, None; if best_bid and best_ask: ...
MetricsOneSided(best_bid, best_ask) ==
    LET bb == IF best_bid = None THEN 0 ELSE best_bid[1]
        ba == IF best_ask = None THEN 0 ELSE best_ask[1]
    IN [mid_price |-> Some(<<bb + ba, 2>>), spread_bps |-> Some(<<0, 1>>)]

Metrics(best_bid, best_ask) ==
    IF Truthy(best_bid) /\ Truthy(best_ask)
    THEN LET mid == <<best_bid[1] + best_ask[1], 2>>
         IN [mid_price |-> Some(mid),
             spread_bps |-> Some(<<(best_ask[1] - best_bid[1]) * mid[2] * 10000, mid[1]>>)]
    ELSE [mid_price |-> None, spread_bps |-> None]

\* The columns sender.row gets for the event at position i of the batch.
Row(i, ev) ==
    LET best_bid == BestPrice(ev.bids)
        best_ask == BestPrice(ev.asks)
        m == Metrics(best_bid, best_ask)
    IN [idx |-> i, best_bid |-> best_bid, best_ask |-> best_ask,
        mid_price |-> m.mid_price, spread_bps |-> m.spread_bps]

\* batch = await batch_q.get()
QGet ==
    /\ q_pc = "get"
    /\ \E n \in 1..MaxBatchLen : \E batch \in Batches(n) :
        /\ q_batch' = batch
        /\ q_i' = 1
        /\ q_pc' = "row"
    /\ q_rows' = <<>>
    /\ q_flushes' = 0
    /\ UNCHANGED besidesIngest

\* One pass of `for ev in batch`: the try body up to sender.row, or the except
\* clause (print, continue) when the body raises.
QRowAbortBatch ==
    /\ q_pc = "row"
    /\ IF q_batch[q_i].ok
       THEN q_rows' = Append(q_rows, Row(q_i, q_batch[q_i]))
       ELSE q_rows' = q_rows
    /\ IF q_i < Len(q_batch) /\ q_batch[q_i].ok
       THEN q_i' = q_i + 1 /\ q_pc' = "row"
       ELSE q_i' = 0 /\ q_pc' = "flush"
    /\ UNCHANGED <<q_batch, q_flushes>>
    /\ UNCHANGED besidesIngest

QRow ==
    /\ q_pc = "row"
    /\ IF q_batch[q_i].ok
       THEN q_rows' = Append(q_rows, Row(q_i, q_batch[q_i]))
       ELSE q_rows' = q_rows
    /\ IF q_i < Len(q_batch)
       THEN q_i' = q_i + 1 /\ q_pc' = "row"
       ELSE q_i' = 0 /\ q_pc' = "flush"
    /\ UNCHANGED <<q_batch, q_flushes>>
    /\ UNCHANGED besidesIngest

\* sender.flush() returns.
QFlush ==
    /\ q_pc = "flush"
    /\ q_flushes' = q_flushes + 1
    /\ q_pc' = "done"
    /\ UNCHANGED <<q_batch, q_i, q_rows>>
    /\ UNCHANGED besidesIngest

\* batch_q.task_done(); print(...): back to batch_q.get(). The histories of
\* the finished batch are dropped.
QDone ==
    /\ q_pc = "done"
    /\ q_pc' = "get"
    /\ q_batch' = <<>>
    /\ q_rows' = <<>>
    /\ q_flushes' = 0
    /\ UNCHANGED q_i
    /\ UNCHANGED besidesIngest

\* sender.flush() raises: nothing catches it, the coroutine ends.
QFlushRaises ==
    /\ q_pc = "flush"
    /\ q_pc' = "failed"
    /\ UNCHANGED <<q_batch, q_i, q_rows, q_flushes>>
    /\ UNCHANGED besidesIngest

IngestNext ==
    \/ QGet
    \/ QRow
    \/ QFlush
    \/ QFlushRaises
    \/ QDone

IngestSpec == Init /\ [][IngestNext]_vars

\* ------------------------------------------------------------ LocalOrderBook
\* A number as a wire message spells it: its value and the spelling of its
\* fraction ("1" and "1.0" are two spellings of one value).
Spellings == {"", ".0"}

Wire(values) == values \X Spellings

\* float(x)
Float(w) == w[1]

\* A side of a book (self.bids, self.asks) is a function price -> qty whose
\* domain is the set of keys of the dict.
EmptySide == [p \in {} |-> 0]

\* side_dict.pop(p, None)
Pop(side, p) == [x \in DOMAIN side \ {p} |-> side[x]]

\* side_dict[p] = q
SetItem(side, p, q) == [x \in DOMAIN side \cup {p} |-> IF x = p THEN q ELSE side[x]]

\* upsert_side, the body of its for loop for one (price, qty) pair.
UpsertOneKeepZero(side, price, qty) ==
    SetItem(side, Float(price), Float(qty))

UpsertOne(side, price, qty) ==
    LET p == Float(price)
        q == Float(qty)
    IN IF q = 0 THEN Pop(side, p) ELSE SetItem(side, p, q)

\* LocalOrderBook.upsert_side(side_dict, updates): the value of side_dict after
\* the call.
RECURSIVE upsert_side(_, _)
upsert_side(side_dict, updates) ==
    IF updates = <<>> THEN side_dict
    ELSE upsert_side(UpsertOne(side_dict, Head(updates)[1], Head(updates)[2]),
                     Tail(updates))

\* {float(p): float(q) for p, q in levels}: the dict that the full-replacement
\* handlers assign to lob.bids and lob.asks; a later level of the same price
\* overwrites an earlier one, a qty of 0 is stored like any other.
RECURSIVE DictOf(_)
DictOf(levels) ==
    IF levels = <<>> THEN EmptySide
    ELSE LET last == levels[Len(levels)]
         IN SetItem(DictOf(SubSeq(levels, 1, Len(levels) - 1)),
                    Float(last[1]), Float(last[2]))

\* sorted(keys, key=lambda x: -x) when descending, sorted(keys) otherwise.
RECURSIVE Sorted(_, _)
Sorted(keys, descending) ==
    IF keys = {} THEN <<>>
    ELSE LET first == CHOOSE x \in keys :
                        \A y \in keys : IF descending THEN x >= y ELSE x <= y
         IN <<first>> \o Sorted(keys \ {first}, descending)

\* sorted(side.items(), key=...): the (price, qty) items in sorted order.
SortedItems(side, descending) ==
    LET prices == Sorted(DOMAIN side, descending)
    IN [i \in 1..Len(prices) |-> <<prices[i], side[prices[i]]>>]

\* s[:n] for n >= 0.
Take(s, n) == SubSeq(s, 1, Min(n, Len(s)))

\* LocalOrderBook.snapshot(top_n): the bids, asks and last_update_id entries of
\* the dict returned (symbol and ts are left out).
snapshotBidsAscending(book, top_n) ==
    [bids |-> Take(SortedItems(book.bids, FALSE), top_n),
     asks |-> Take(SortedItems(book.asks, FALSE), top_n),
     last_update_id |-> book.last_update_id]

snapshot(book, top_n) ==
    [bids |-> Take(SortedItems(book.bids, TRUE), top_n),
     asks |-> Take(SortedItems(book.asks, FALSE), top_n),
     last_update_id |-> book.last_update_id]

\* -------------------------------------------------------------- split_symbol
\* A str is the sequence of its characters.
LowerCase == <<"a", "b", "c", "d", "e", "f", "g", "h", "i", "j", "k", "l", "m",
               "n", "o", "p", "q", "r", "s", "t", "u", "v", "w", "x", "y", "z">>

UpperCase == <<"A", "B", "C", "D", "E", "F", "G", "H", "I", "J", "K", "L", "M",
               "N", "O", "P", "Q", "R", "S", "T", "U", "V", "W", "X", "Y", "Z">>

\* The upper-case letter of every lower-case letter.
UpperMap ==
    [c \in {LowerCase[i] : i \in 1..Len(LowerCase)} |->
        UpperCase[CHOOSE i \in 1..Len(LowerCase) : LowerCase[i] = c]]

UpperChar(c) == IF c \in DOMAIN UpperMap THEN UpperMap[c] ELSE c

\* str.upper()
upperIdentity(str) == str

upper(str) == [i \in 1..Len(str) |-> UpperChar(str[i])]

\* str.split(sep) for a one-character sep: the list of the pieces between the
\* occurrences of sep (empty pieces included).
RECURSIVE split(_, _)
split(str, sep) ==
    IF \E i \in 1..Len(str) : str[i] = sep
    THEN LET i == CHOOSE k \in 1..Len(str) :
                    str[k] = sep /\ \A j \in 1..(k - 1) : str[j] # sep
         IN <<SubSeq(str, 1, i - 1)>> \o split(SubSeq(str, i + 1, Len(str)), sep)
    ELSE <<str>>

\* str.endswith(suffix)
endswith(str, suffix) ==
    /\ Len(suffix) <= Len(str)
    /\ SubSeq(str, Len(str) - Len(suffix) + 1, Len(str)) = suffix

USDT == <<"U", "S", "D", "T">>

\* The quote kept as the venue spells it.
DashQuoteKept == <<"-", "U", "S", "D", "T">>

DashUSD == <<"-", "U", "S", "D">>

\* return base, quote, normalized
Returns(base, quote, normalized) ==
    [raises |-> FALSE, base |-> base, quote |-> quote, normalized |-> normalized]

\* An exception leaves the function.
Raised == [raises |-> TRUE]

\* split_symbol(exchange, venue_sym)
split_symbol(exch, venue_sym) ==
    LET s == upper(venue_sym)
        fallback == Returns(venue_sym, <<>>, venue_sym)
        dash == split(s, "-")
        under == split(s, "_")
    IN CASE exch = "upbit" ->
              IF Len(dash) = 2
              THEN Returns(dash[2], dash[1], dash[2] \o <<"-">> \o dash[1])
              ELSE fallback
         [] exch = "bithumb" ->
              IF Len(under) = 2
              THEN Returns(under[1], under[2], under[1] \o <<"-">> \o under[2])
              ELSE fallback
         [] exch = "coinone" ->
              IF Len(dash) = 2
              THEN Returns(upper(dash[1]), upper(dash[2]),
                           upper(dash[1]) \o <<"-">> \o upper(dash[2]))
              ELSE fallback
         [] exch = "korbit" ->
              IF Len(under) = 2
              THEN Returns(upper(under[1]), upper(under[2]),
                           upper(under[1]) \o <<"-">> \o upper(under[2]))
              ELSE fallback
         [] exch \in {"binance", "bybit"} ->
              IF endswith(s, USDT)
              THEN LET base == SubSeq(s, 1, Len(s) - 4)
                   IN Returns(base, USDT, base \o DashUSD)
              ELSE fallback
         [] exch = "okx" ->
              IF \E i \in 1..Len(s) : s[i] = "-"
              THEN IF Len(dash) # 2 THEN Raised
                   ELSE IF dash[2] = USDT
                        THEN Returns(dash[1], dash[2], dash[1] \o DashUSD)
                        ELSE fallback
              ELSE fallback
         [] OTHER -> fallback

\* ------------------------------------------------- calls of the pure functions
\* All dicts with keys out of prices and values out of qtys.
SidesOver(prices, qtys) == UNION {[D -> qtys] : D \in SUBSET prices}

\* Arguments of upsert_side: a side holding prices 1 and 2, and (price, qty)
\* pairs as a message spells them.
UpdateLevels ==
    {<<1, "">>, <<1, ".0">>, <<2, "">>} \X (Wire({0}) \cup {<<1, "">>, <<2, "">>})

UpsertArgs(n) == [side : SidesOver({1, 2}, {1, 2}), updates : [1..n -> UpdateLevels]]

\* Arguments of snapshot: a book and top_n, from 0 to more than the book holds.
SnapshotArgs ==
    [book : [bids : SidesOver(1..MaxPrice, {1, 2}),
             asks : SidesOver(1..MaxPrice, {1, 2}),
             last_update_id : {7}],
     top_n : 0..(MaxPrice + 1)]

\* Pieces of venue symbols as main()'s symbol maps spell them, each with its
\* upper-case spelling, and the separators the venues use ("" joins two pieces
\* directly, as in "dogeusdt").
PartTable ==
    << << <<"d", "o", "g", "e">>, <<"D", "O", "G", "E">> >>,
       << <<"B", "T", "C">>,      <<"B", "T", "C">> >>,
       << <<"E", "t", "h">>,      <<"E", "T", "H">> >>,
       << <<"K", "R", "W">>,      <<"K", "R", "W">> >>,
       << <<"u", "s", "d", "t">>, USDT >>,
       << USDT,                   USDT >> >>

Parts == {PartTable[i][1] : i \in 1..Len(PartTable)}

Seps == {<<"-">>, <<"_">>, <<>>}

\* parts[lo] seps[lo] parts[lo+1] ... parts[hi], written out.
RECURSIVE Join(_, _, _, _)
Join(parts, seps, lo, hi) ==
    IF lo > hi THEN <<>>
    ELSE IF lo = hi THEN parts[lo]
         ELSE parts[lo] \o seps[lo] \o Join(parts, seps, lo + 1, hi)

\* Arguments of split_symbol: an exchange name (one of main's or another one)
\* and a venue symbol of n pieces, kept together with the pieces it is made of.
SplitArgs(n) ==
    {[exchange |-> x, parts |-> ps, seps |-> ss, venue_sym |-> Join(ps, ss, 1, n)] :
        x \in Exchanges \cup {"other"}, ps \in [1..n -> Parts], ss \in [1..(n - 1) -> Seps]}

\* Function op is about to be called with arguments out of args.
FnInit(op, args) ==
    /\ PipeInit
    /\ StreamStart("binance", 1..NumSymbols)
    /\ MainStart
    /\ IngestStart
    /\ BookStart("binance")
    /\ fn_op = op
    /\ fn_in \in args
    /\ fn_out = None

CallSplitSymbol ==
    /\ fn_op = "split_symbol"
    /\ fn_out = None
    /\ fn_out' = Some(split_symbol(fn_in.exchange, fn_in.venue_sym))
    /\ UNCHANGED <<fn_op, fn_in>>
    /\ UNCHANGED besidesFn

CallUpsertSide ==
    /\ fn_op = "upsert_side"
    /\ fn_out = None
    /\ fn_out' = Some(upsert_side(fn_in.side, fn_in.updates))
    /\ UNCHANGED <<fn_op, fn_in>>
    /\ UNCHANGED besidesFn

\* snapshot assigns to no attribute of the book.
CallSnapshot ==
    /\ fn_op = "snapshot"
    /\ fn_out = None
    /\ fn_out' = Some(snapshot(fn_in.book, fn_in.top_n))
    /\ UNCHANGED <<fn_op, fn_in>>
    /\ UNCHANGED besidesFn

SplitSpec ==
    /\ \E n \in 1..MaxParts : FnInit("split_symbol", SplitArgs(n))
    /\ [][CallSplitSymbol]_vars

UpsertSpec ==
    /\ \E n \in 0..MaxUpdates : FnInit("upsert_side", UpsertArgs(n))
    /\ [][CallUpsertSide]_vars

SnapshotSpec == FnInit("snapshot", SnapshotArgs) /\ [][CallSnapshot]_vars

\* ------------------------------------------- one streamer task and its book
\* symbol_map of the streamer of the book model: one unified symbol and the
\* venue's spelling of it.
BookSymbolMap == [u \in {"BTC"} |-> <<"b", "t", "c">>]

\* Venue symbols of inbound messages: the mapped one in the other case, and one
\* that is not in symbol_map.
MsgVenues == {<<"B", "T", "C">>, <<"e", "t", "h">>}

\* BaseStreamer._find_unified(venue): the unified symbol whose venue symbol
\* equals venue when both are upper-cased, or None.
find_unifiedFirstKey(symbol_map, venue) ==
    Some(CHOOSE u \in DOMAIN symbol_map : TRUE)

find_unified(symbol_map, venue) ==
    LET hits == {u \in DOMAIN symbol_map : upper(symbol_map[u]) = upper(venue)}
    IN IF hits = {} THEN None ELSE Some(CHOOSE u \in hits : TRUE)

\* (price, qty) levels of messages and REST snapshots, as spelled on the wire.
BookLevels == ({1, 2} \X {""}) \X ({0, 1} \X {""})

LevelLists == UNION {[1..n -> BookLevels] : n \in 0..MaxLevels}

\* seqId, u, timestamp: the sequence numbers messages and snapshots carry.
MsgSeqs == {1}

\* Well-formed book messages.
BookMsgs ==
    [kind : {"book"}, venue : MsgVenues, bids : LevelLists, asks : LevelLists,
     seq : MsgSeqs]

\* Frames that are no book message (see MsgKinds).
OtherMsgs == {[kind |-> "invalid_json"], [kind |-> "non_book"]}

\* Book messages for the mapped symbol in which reading one field raises
\* (missing key, entry that does not unpack, text that is no number): the bid
\* list, the ask list, the sequence number read before last_update_id is
\* assigned, or the timestamp read after it.
BadShapeMsgs ==
    [kind : {"bad_shape"}, venue : {<<"B", "T", "C">>}, bids : LevelLists,
     asks : {<<>>}, seq : MsgSeqs, fails_at : {"bids", "asks", "seq", "ts"}]

\* The variants that read a field of the message after assigning
\* last_update_id: data["E"] (Binance), book_data["ts"] (OKX).
ReadsAfterSeq(e) == e \in {"binance", "okx"}

\* The book after a well-formed book message: Binance and Bybit apply the
\* levels with upsert_side, the other variants replace both sides by the dicts
\* built from the message.
Applied(e, book, msg) ==
    IF PerSymbol(e)
    THEN [bids |-> upsert_side(book.bids, msg.bids),
          asks |-> upsert_side(book.asks, msg.asks),
          last_update_id |-> msg.seq]
    ELSE [bids |-> DictOf(msg.bids),
          asks |-> DictOf(msg.asks),
          last_update_id |-> msg.seq]

\* The book when the handler of a mis-shaped book message raises: the
\* statements before the failing read have been executed.
AppliedUntilRaise(e, book, msg) ==
    LET full == Applied(e, book, msg)
    IN CASE msg.fails_at = "bids" -> book
         [] msg.fails_at = "asks" -> [book EXCEPT !.bids = full.bids]
         [] msg.fails_at = "seq" -> [book EXCEPT !.bids = full.bids, !.asks = full.asks]
         [] OTHER -> full

\* The event self.publish(...) puts on out_q for the book.
EventOf(book) == [seq |-> book.last_update_id, depth |-> snapshot(book, TopN)]

\* BybitStreamer._one: the REST snapshot answers with retCode 0; both sides
\* and last_update_id are replaced.
BkSnapshotOk ==
    /\ bk_pc = "snapshot"
    /\ \E bids \in LevelLists, asks \in LevelLists, seq \in MsgSeqs :
        lob' = [bids |-> DictOf(bids), asks |-> DictOf(asks), last_update_id |-> seq]
    /\ bk_pc' = "connect"
    /\ bk_event' = None
    /\ bk_last' = [kind |-> "none"]
    /\ UNCHANGED bk_exchange
    /\ UNCHANGED besidesBook

\* The REST snapshot answers with another retCode; the task goes on to connect.
BkSnapshotRejected ==
    /\ bk_pc = "snapshot"
    /\ bk_pc' = "connect"
    /\ bk_event' = None
    /\ bk_last' = [kind |-> "none"]
    /\ UNCHANGED <<bk_exchange, lob>>
    /\ UNCHANGED besidesBook

\* A connect that starts from an empty book.
BkConnectFreshBook ==
    /\ bk_pc = "connect"
    /\ bk_pc' = "read"
    /\ bk_event' = None
    /\ bk_last' = [kind |-> "none"]
    /\ lob' = [bids |-> <<>>, asks |-> <<>>, last_update_id |-> 0]
    /\ UNCHANGED bk_exchange
    /\ UNCHANGED besidesBook

\* websockets.connect and the subscription succeed: the task is in async for.
BkConnect ==
    /\ bk_pc = "connect"
    /\ bk_pc' = "read"
    /\ bk_event' = None
    /\ bk_last' = [kind |-> "none"]
    /\ UNCHANGED <<bk_exchange, lob>>
    /\ UNCHANGED besidesBook

\* The snapshot request, the connect, the subscription or the read raises:
\* except Exception, print, await asyncio.sleep(5).
BkFail ==
    /\ bk_pc \in {"snapshot", "connect", "read"}
    /\ bk_pc' = "sleep"
    /\ bk_event' = None
    /\ bk_last' = [kind |-> "none"]
    /\ UNCHANGED <<bk_exchange, lob>>
    /\ UNCHANGED besidesBook

\* The sleep is over, or the server closed the connection and async for ended:
\* the while True loop starts its next pass.
BkRestart ==
    /\ bk_pc \in {"sleep", "read"}
    /\ bk_pc' = StartPc(bk_exchange)
    /\ bk_event' = None
    /\ bk_last' = [kind |-> "none"]
    /\ UNCHANGED <<bk_exchange, lob>>
    /\ UNCHANGED besidesBook

\* A handler that takes the snapshot before it applies the message.
BkRecvStaleDepth(msg) ==
    /\ bk_pc = "read"
    /\ (msg.kind = "bad_shape" /\ msg.fails_at = "ts") => ReadsAfterSeq(bk_exchange)
    /\ LET known == IF msg.kind = "book"
                    THEN find_unified(BookSymbolMap, msg.venue) # None
                    ELSE FALSE
           outcome == Outcome(bk_exchange, msg.kind, known)
       IN /\ CASE outcome = "raise" ->
                    /\ bk_pc' = "sleep"
                    /\ bk_event' = None
                    /\ lob' = IF msg.kind = "bad_shape"
                              THEN AppliedUntilRaise(bk_exchange, lob, msg)
                              ELSE lob
               [] outcome = "continue" ->
                    /\ bk_pc' = "read"
                    /\ bk_event' = None
                    /\ lob' = lob
               [] OTHER ->
                    /\ bk_pc' = "read"
                    /\ lob' = Applied(bk_exchange, lob, msg)
                    /\ bk_event' = Some(EventOf(lob))
          /\ bk_last' = [kind |-> msg.kind,
                          venue |-> IF msg.kind = "book" THEN msg.venue ELSE <<>>,
                          changed |-> lob' # lob]
    /\ UNCHANGED bk_exchange
    /\ UNCHANGED besidesBook

\* One iteration of async for raw in ws.
BkRecv(msg) ==
    /\ bk_pc = "read"
    /\ (msg.kind = "bad_shape" /\ msg.fails_at = "ts") => ReadsAfterSeq(bk_exchange)
    /\ LET known == IF msg.kind = "book"
                    THEN find_unified(BookSymbolMap, msg.venue) # None
                    ELSE FALSE
           outcome == Outcome(bk_exchange, msg.kind, known)
       IN /\ CASE outcome = "raise" ->
                    /\ bk_pc' = "sleep"
                    /\ bk_event' = None
                    /\ lob' = IF msg.kind = "bad_shape"
                              THEN AppliedUntilRaise(bk_exchange, lob, msg)
                              ELSE lob
               [] outcome = "continue" ->
                    /\ bk_pc' = "read"
                    /\ bk_event' = None
                    /\ lob' = lob
               [] OTHER ->
                    /\ bk_pc' = "read"
                    /\ lob' = Applied(bk_exchange, lob, msg)
                    /\ bk_event' = Some(EventOf(lob'))
          /\ bk_last' = [kind |-> msg.kind,
                          venue |-> IF msg.kind = "book" THEN msg.venue ELSE <<>>,
                          changed |-> lob' # lob]
    /\ UNCHANGED bk_exchange
    /\ UNCHANGED besidesBook

BookNext ==
    \/ BkSnapshotOk
    \/ BkSnapshotRejected
    \/ BkConnect
    \/ BkFail
    \/ BkRestart
    \/ \E msg \in BookMsgs : BkRecv(msg)
    \/ \E msg \in OtherMsgs : BkRecv(msg)
    \/ \E msg \in BadShapeMsgs : BkRecv(msg)

BookInit ==
    /\ PipeInit
    /\ StreamStart("binance", 1..NumSymbols)
    /\ MainStart
    /\ IngestStart
    /\ NoCall
    /\ \E e \in Exchanges : BookStart(e)

BookSpec == BookInit /\ [][BookNext]_vars

\* ------------------------------------------- main's symbol maps and the tags
\* The lower-case letter of every upper-case letter.
LowerMap ==
    [c \in {UpperCase[i] : i \in 1..Len(UpperCase)} |->
        LowerCase[CHOOSE i \in 1..Len(UpperCase) : UpperCase[i] = c]]

\* The spelling of the map values "btcusdt", "btc-krw", "btc_krw".
lower(str) ==
    [i \in 1..Len(str) |-> IF str[i] \in DOMAIN LowerMap THEN LowerMap[str[i]] ELSE str[i]]

\* The exchanges whose USDT pairs are normalized to USD.
GlobalExchanges == {"binance", "okx", "bybit"}

\* The assets of main's symbol maps.
Assets ==
    {<<"B", "T", "C">>, <<"E", "T", "H">>, <<"S", "O", "L">>,
     <<"X", "R", "P">>, <<"A", "D", "A">>, <<"D", "O", "G", "E">>}

USD == <<"U", "S", "D">>

KRW == <<"K", "R", "W">>

\* main(): the unified symbol of asset a in the map of exchange e, "BTC-USD" on
\* the global venues and "BTC-KRW" on the Korean ones.
UnifiedOf(e, a) == a \o <<"-">> \o (IF e \in GlobalExchanges THEN USD ELSE KRW)

\* main(): the venue symbol of asset a in the map of exchange e: "btcusdt",
\* "BTC-USDT", "BTCUSDT", "KRW-BTC", "BTC_KRW", "btc-krw", "btc_krw".
VenueOf(e, a) ==
    CASE e = "binance" -> lower(a \o USDT)
      [] e = "okx" -> a \o <<"-">> \o USDT
      [] e = "bybit" -> a \o USDT
      [] e = "upbit" -> KRW \o <<"-">> \o a
      [] e = "bithumb" -> a \o <<"_">> \o KRW
      [] e = "coinone" -> lower(a \o <<"-">> \o KRW)
      [] e = "korbit" -> lower(a \o <<"_">> \o KRW)

\* binance_map, okx_map, ..., korbit_map: unified symbol -> venue symbol.
symbol_map(e) ==
    [u \in {UnifiedOf(e, a) : a \in Assets} |->
        VenueOf(e, CHOOSE a \in Assets : UnifiedOf(e, a) = u)]

\* The venue symbol a streamer passes to publish for the book of unified: the
\* per-symbol tasks of Binance and Bybit pass the map's value, the other
\* streamers the symbol read from the message, which _find_unified matched to
\* the map's value without regard to case.
VenueSyms(e, unified) ==
    LET v == symbol_map(e)[unified]
    IN IF PerSymbol(e) THEN {v} ELSE {v, upper(v), lower(v)}

\* BaseStreamer.publish: the identifying fields of the event.
publishNoVenue(e, symbol, venue_sym) ==
    [exchange |-> e, symbol |-> symbol, venue_symbol |-> symbol]

publish(e, symbol, venue_sym) ==
    [exchange |-> e,
     symbol |-> symbol,
     venue_symbol |-> IF venue_sym # <<>> THEN venue_sym
                      ELSE IF symbol \in DOMAIN symbol_map(e)
                           THEN symbol_map(e)[symbol] ELSE symbol]

\* get_region(exchange, quote)
get_region(exch, quote) ==
    IF exch \in {"upbit", "bithumb", "coinone", "korbit"} \/ quote = KRW
    THEN "KR" ELSE "GLOBAL"

\* questdb_consumer: the tags (symbols=...) of the row of event ev; an
\* exception of split_symbol skips the row.
Tags(ev) ==
    LET r == split_symbol(ev.exchange, ev.venue_symbol)
    IN IF r.raises THEN [skipped |-> TRUE]
       ELSE [skipped |-> FALSE,
             exchange |-> ev.exchange,
             symbol |-> r.normalized,
             base |-> r.base,
             quote |-> r.quote,
             region |-> get_region(ev.exchange, r.quote)]

\* A streamer publishes an event for one of its books.
PublishMapped ==
    /\ fn_op = "tags"
    /\ fn_in = None
    /\ \E e \in Exchanges :
        \E unified \in DOMAIN symbol_map(e) :
            \E venue \in VenueSyms(e, unified) :
                fn_in' = Some(publish(e, unified, venue))
    /\ UNCHANGED <<fn_op, fn_out>>
    /\ UNCHANGED besidesFn

\* questdb_consumer builds the row of the event.
RowTags ==
    /\ fn_op = "tags"
    /\ fn_in # None
    /\ fn_out = None
    /\ fn_out' = Some(Tags(fn_in[1]))
    /\ UNCHANGED <<fn_op, fn_in>>
    /\ UNCHANGED besidesFn

\* The row is written; the next event comes.
RowWritten ==
    /\ fn_op = "tags"
    /\ fn_out # None
    /\ fn_in' = None
    /\ fn_out' = None
    /\ UNCHANGED fn_op
    /\ UNCHANGED besidesFn

TagsNext == PublishMapped \/ RowTags \/ RowWritten

TagsInit ==
    /\ PipeInit
    /\ StreamStart("binance", 1..NumSymbols)
    /\ MainStart
    /\ IngestStart
    /\ BookStart("binance")
    /\ fn_op = "tags"
    /\ fn_in = None
    /\ fn_out = None

TagsSpec == TagsInit /\ [][TagsNext]_vars

\* ======================================================================
\* Pipeline claims
\* ======================================================================

\* C1: every event put on the broadcaster's source queue is put on every
\* destination queue exactly once and in submission order (what was put on each
\* destination is always a prefix of what was submitted), and every submitted
\* event eventually reaches every destination queue.
C1_FanOut ==
    /\ [](\A n \in DstSet : IsPrefix(delivered[n], submitted))
    /\ \A k \in 1..MaxEvents :
         (Len(submitted) >= k) ~> (\A n \in DstSet : Len(delivered[n]) >= k)

\* C1 witness: all events were fanned out to all destinations while one consumer
\* lagged behind with several events queued.
C1_Witness ==
    /\ Len(submitted) = MaxEvents
    /\ \A n \in DstSet : delivered[n] = submitted
    /\ Len(dst_queues["file_q"]) >= 2
    /\ dst_queues["realtime_q"] = <<>>

\* C2 (as claimed): every queue between two stages has a finite capacity, the
\* maxsize it was built with, and its length never exceeds that capacity.
C2_QueuesBounded ==
    /\ Len(central_q) <= QueueMaxsize
    /\ \A n \in DstSet : Len(dst_queues[n]) <= QueueMaxsize

\* C3: the batches emitted so far, concatenated in emission order, followed by the
\* buffer, are exactly the events taken so far in the order taken (so the
\* concatenation is a prefix of the taken sequence), and the events handed to the
\* ingestor are a prefix of the events in publication order.
C3_BatcherOrder ==
    /\ Flatten(batches) \o buf = taken
    /\ IsPrefix(Flatten(batches), taken)
    /\ IsPrefix(taken, submitted)
    /\ IsPrefix(ingested, Flatten(batches))

\* C3 witness: several batches were emitted and ingested, covering all events.
C3_Witness ==
    /\ Len(batches) >= 2
    /\ ingested = submitted
    /\ Len(submitted) = MaxEvents

\* The batcher has emitted everything that was submitted to it.
Quiescent ==
    /\ buf = <<>>
    /\ batcher_pc = "wait"
    /\ dst_queues["db_staging_q"] = <<>>
    /\ taken = delivered["db_staging_q"]
    /\ taken # <<>>

\* C4 (as claimed): once the N events submitted so far are all emitted, and every
\* event arrived less than max_wait after the previous one (the first one less
\* than max_wait after the batcher started), exactly ceil(N / batch_size) batches
\* were emitted.
C4_ExactBatchCount ==
    (Quiescent /\ fastArrivals) =>
        Len(batches) = CeilDiv(Len(taken), batch_size)

\* C4 (amended): the number of batches emitted for the n events emitted so far is
\* at least ceil(n / batch_size) and at most n.
C4_BatchCountBounds ==
    LET n == Len(Flatten(batches)) IN
        /\ CeilDiv(n, batch_size) <= Len(batches)
        /\ Len(batches) <= n

\* C4 witness: events arrived less than max_wait apart, all were emitted, and more
\* than ceil(N / batch_size) batches were needed.
C4_Witness ==
    /\ Quiescent
    /\ fastArrivals
    /\ Len(batches) > CeilDiv(Len(taken), batch_size)

\* C5: no emitted batch holds more than batch_size events, and the batcher is
\* never waiting for an event while its buffer holds batch_size or more events.
C5_FlushAtThreshold ==
    /\ \A i \in 1..Len(batches) : Len(batches[i]) <= batch_size
    /\ \A i \in 1..Len(db_batch_q) : Len(db_batch_q[i]) <= batch_size
    /\ Len(buf) <= batch_size
    /\ batcher_pc = "wait" => Len(buf) < batch_size

\* C5 witness: a batch of exactly batch_size events was emitted.
C5_Witness == \E i \in 1..Len(batches) : Len(batches[i]) = batch_size

\* C6: every event the batcher has taken is eventually emitted in a batch.
C6_EventuallyEmitted ==
    \A k \in 1..MaxEvents :
        (Len(taken) >= k) ~> (Len(Flatten(batches)) >= k)

\* C6 witness: a batch of fewer than batch_size events was emitted after the wait
\* timed out with no further event.
C6_Witness ==
    /\ batches # <<>>
    /\ Len(batches[Len(batches)]) < batch_size
    /\ Quiescent
    /\ elapsed = 0
    /\ gap >= max_wait

\* C7: every batch put on the destination queue is non-empty, and no event is in
\* two batches or both in a batch and in the buffer.
C7_NonEmptyBatches ==
    /\ \A i \in 1..Len(batches) : batches[i] # <<>>
    /\ \A i \in 1..Len(db_batch_q) : db_batch_q[i] # <<>>
    /\ NoDuplicates(Flatten(batches) \o buf)
    /\ batcher_pc = "flush" => buf # <<>>

\* C7 witness: after a flush the wait timed out with an empty buffer (elapsed has
\* reached max_wait since that flush and a new wait has just started).
C7_Witness ==
    /\ batches # <<>>
    /\ buf = <<>>
    /\ batcher_pc = "wait"
    /\ elapsed >= max_wait
    /\ waited = 0
    /\ dst_queues["db_staging_q"] = <<>>

\* ======================================================================
\* Streamer claims
\* ======================================================================

\* C8: in every streamer variant every exception caught by a task puts the task
\* to sleep for BackoffSeconds, whatever the number of failures before it; every
\* sleep in progress is one of BackoffSeconds; and a sleeping task always goes
\* on to a further attempt (the first step of its loop), with no retry limit.
C8_FixedBackoffRetry ==
    /\ [](\A t \in TaskIds : pc[t] = "sleep" <=> delay[t] = BackoffSeconds)
    /\ [][\A t \in TaskIds :
            failures'[t] = failures[t] + 1 =>
                pc'[t] = "sleep" /\ delay'[t] = BackoffSeconds]_vars
    /\ \A t \in TaskIds : (pc[t] = "sleep") ~> (pc[t] = StartPc(exchange))

\* C8 witness: after MaxFaults consecutive failures a task starts a further
\* attempt.
C8_Witness ==
    \E t \in TaskIds :
        /\ failures[t] = MaxFaults
        /\ pc[t] = StartPc(exchange)

\* C9: no LocalOrderBook is ever created after the constructor (each symbol keeps
\* the book it got there), and a task that failed publishes again, on a new
\* connection, once the venue has recovered.
C9_ResumeSameBooks ==
    /\ [](/\ books_created = Cardinality(symbols)
          /\ \A s \in symbols : book_id[s] = s)
    /\ \A t \in TaskIds : (pc[t] = "sleep") ~> (pc[t] = "read" /\ pubOnConn[t])

\* C9 witness: the single task of a multiplexed streamer publishes on a new
\* connection, after a failure of the previous one, with the books of the
\* constructor.
C9_Witness ==
    \E t \in TaskIds :
        /\ ~PerSymbol(exchange)
        /\ faults >= 1
        /\ pc[t] = "read"
        /\ pubOnConn[t]
        /\ \A s \in symbols : book_id[s] = s

\* C10 (as claimed): right after a task has handled a malformed message (invalid
\* JSON or a mis-shaped book message) it is still in its read loop, on the same
\* connection.
C10_MalformedKeepsConnection ==
    \A t \in TaskIds : inbound[t] \in Malformed => pc[t] = "read"

\* ======================================================================
\* Task-group claims (MainSpec)
\* ======================================================================
\* C11: when a streamer task ends with an unrecoverable error, only that task
\* stops: as long as no task other than streamers has failed, every other task
\* (streamers, broadcaster, batcher, consumers) is still running.
C11_OnlyFailedStreamerStops ==
    (/\ \E s \in Exchanges : task_state[s] = "failed"
     /\ \A t \in PipelineTasks : task_state[t] # "failed")
        => \A t \in TaskNames : task_state[t] \in {"running", "failed"}

\* C12: no error of the store, neither a failing row submission nor a failing
\* flush of a batch, terminates the storage ingestor or any other task: with
\* no streamer failed, every task is running after a store error.
C12_StoreErrorTerminatesNothing ==
    (/\ store_error # "none"
     /\ \A s \in Exchanges : task_state[s] # "failed")
        => \A t \in TaskNames : task_state[t] = "running"

\* ======================================================================
\* Ingestor claims (IngestSpec)
\* ======================================================================
\* Positions 1..n of the batch whose event does not raise, in batch order.
RECURSIVE OkPositions(_, _)
OkPositions(batch, n) ==
    IF n = 0 THEN <<>>
    ELSE IF batch[n].ok THEN Append(OkPositions(batch, n - 1), n)
         ELSE OkPositions(batch, n - 1)

\* The events of the batch whose pass of the for loop is over.
PassedEvents ==
    CASE q_pc = "row" -> q_i - 1
      [] q_pc \in {"flush", "done", "failed"} -> Len(q_batch)
      [] OTHER -> 0

\* C13: an event that raises is skipped alone: the rows submitted are exactly
\* one row for every event of the batch that does not raise, in batch order,
\* no flush happens before the last event's pass, and once the flush returned
\* and before the next batch is taken the batch was flushed exactly once.
C13_SkipOnlyFailingEvent ==
    /\ [k \in 1..Len(q_rows) |-> q_rows[k].idx] = OkPositions(q_batch, PassedEvents)
    /\ \A k \in 1..Len(q_rows) : q_rows[k] = Row(q_rows[k].idx, q_batch[q_rows[k].idx])
    /\ q_pc \in {"row", "flush"} => q_flushes = 0
    /\ q_pc = "done" => q_flushes = 1

\* A batch whose first event raised and whose second event got its row, flushed.
C13_Witness ==
    /\ q_pc = "done"
    /\ Len(q_batch) = 2
    /\ ~q_batch[1].ok
    /\ q_batch[2].ok
    /\ Len(q_rows) = 1
    /\ q_rows[1].idx = 2
    /\ q_flushes = 1

\* C15: the row of an event whose depth has an empty bid side or an empty ask
\* side has mid_price and spread_bps both null.
C15_NullWhenSideMissing ==
    \A k \in 1..Len(q_rows) :
        LET ev == q_batch[q_rows[k].idx]
        IN (ev.bids = <<>> \/ ev.asks = <<>>)
            => q_rows[k].mid_price = None /\ q_rows[k].spread_bps = None

\* A stored row of an event with asks but no bids.
C15_Witness ==
    \E k \in 1..Len(q_rows) :
        /\ q_batch[q_rows[k].idx].bids = <<>>
        /\ q_batch[q_rows[k].idx].asks # <<>>
        /\ q_rows[k].best_ask = Some(MaxTick)
        /\ q_rows[k].mid_price = None

\* C16: the row of an event whose depth has both sides non-empty has
\* mid_price = (bestBid + bestAsk) / 2 and spread_bps = (bestAsk - bestBid) /
\* mid_price * 10000, both non-null, for every price value for which the
\* quotient is defined (mid_price # 0), and spread_bps = 0 when bestBid = bestAsk.
C16_MetricsWhenBothSides ==
    \A k \in 1..Len(q_rows) :
        LET ev == q_batch[q_rows[k].idx]
        IN (ev.bids # <<>> /\ ev.asks # <<>> /\ ev.bids[1][1] + ev.asks[1][1] # 0) =>
            LET bestBid == ev.bids[1][1]
                bestAsk == ev.asks[1][1]
            IN /\ q_rows[k].mid_price # None
               /\ q_rows[k].spread_bps # None
               /\ RatEq(q_rows[k].mid_price[1], <<bestBid + bestAsk, 2>>)
               /\ RatEq(q_rows[k].spread_bps[1],
                        <<(bestAsk - bestBid) * 2 * 10000, bestBid + bestAsk>>)
               /\ bestBid = bestAsk => q_rows[k].spread_bps[1][1] = 0

\* ======================================================================
\* LocalOrderBook and split_symbol claims (SnapshotSpec, UpsertSpec, SplitSpec)
\* ======================================================================
Prices(items) == {items[i][1] : i \in 1..Len(items)}

\* The items are the n best levels of side, best first, with the side's
\* quantities: strictly ordered, min(n, number of levels) of them, and every
\* level left out is worse than every level returned.
BestLevels(items, side, n, descending) ==
    /\ Len(items) = Min(n, Cardinality(DOMAIN side))
    /\ \A i, j \in 1..Len(items) :
        i < j => IF descending THEN items[i][1] > items[j][1]
                 ELSE items[i][1] < items[j][1]
    /\ \A i \in 1..Len(items) :
        items[i][1] \in DOMAIN side /\ items[i][2] = side[items[i][1]]
    /\ \A p \in DOMAIN side \ Prices(items) : \A q \in Prices(items) :
        IF descending THEN q > p ELSE q < p

\* C18: for every book and every N >= 0, snapshot(N) returns the N best bids
\* strictly descending and the N best asks strictly ascending, each of length
\* min(N, levels of the side), with the quantities of the book; the call
\* leaves the book unchanged.
C18_SnapshotBestLevels ==
    /\ [](fn_op = "snapshot" /\ fn_out # None =>
            /\ BestLevels(fn_out[1].bids, fn_in.book.bids, fn_in.top_n, TRUE)
            /\ BestLevels(fn_out[1].asks, fn_in.book.asks, fn_in.top_n, FALSE))
    /\ [][fn_op = "snapshot" => fn_in'.book = fn_in.book]_vars

\* A snapshot that cuts three bid levels down to two and returns all the asks.
C18_Witness ==
    /\ fn_op = "snapshot"
    /\ fn_out # None
    /\ Cardinality(DOMAIN fn_in.book.bids) = 3
    /\ Cardinality(DOMAIN fn_in.book.asks) = 2
    /\ fn_in.top_n = 2
    /\ Len(fn_out[1].bids) = 2
    /\ Len(fn_out[1].asks) = 2

\* The positions of the updates list that name price p.
UpdatesOf(updates, p) == {i \in 1..Len(updates) : Float(updates[i][1]) = p}

Max(S) == CHOOSE x \in S : \A y \in S : x >= y

\* C19: upsert_side processes its pairs in order: after the call a price named
\* by no pair is as before, a price whose last pair has qty 0 is absent and any
\* other price holds the qty of its last pair; a call on the whole list equals
\* calls on its pieces one after the other, and one more zero-qty update of a
\* price gives the same map however often it is applied.
C19_UpsertInOrder ==
    (fn_op = "upsert_side" /\ fn_out # None) =>
        LET side == fn_in.side
            updates == fn_in.updates
            out == fn_out[1]
        IN /\ \A p \in DOMAIN side \cup DOMAIN out \cup {1, 2} :
                IF UpdatesOf(updates, p) = {}
                THEN /\ p \in DOMAIN out <=> p \in DOMAIN side
                     /\ p \in DOMAIN side => out[p] = side[p]
                ELSE LET qty == Float(updates[Max(UpdatesOf(updates, p))][2])
                     IN IF qty = 0 THEN p \notin DOMAIN out
                        ELSE p \in DOMAIN out /\ out[p] = qty
           /\ \A k \in 0..Len(updates) :
                upsert_side(upsert_side(side, SubSeq(updates, 1, k)),
                            SubSeq(updates, k + 1, Len(updates))) = out
           /\ \A u \in UpdateLevels :
                Float(u[2]) = 0 =>
                    LET once == upsert_side(out, <<u>>)
                    IN /\ Float(u[1]) \notin DOMAIN once
                       /\ upsert_side(once, <<u>>) = once
                       /\ \A p \in DOMAIN out \ {Float(u[1])} :
                            p \in DOMAIN once /\ once[p] = out[p]

\* A call that sets price 1, then removes it with a qty spelled "0.0", on a
\* side that held prices 1 and 2.
C19_Witness ==
    /\ fn_op = "upsert_side"
    /\ fn_out # None
    /\ DOMAIN fn_in.side = {1, 2}
    /\ fn_in.updates = << <<<<1, "">>, <<2, "">>>>, <<<<1, ".0">>, <<0, ".0">>>> >>
    /\ DOMAIN fn_out[1] = {2}

\* The upper-case spelling of a piece, from the table.
UpperOf(part) == PartTable[CHOOSE i \in 1..Len(PartTable) : PartTable[i][1] = part][2]

\* Pieces lo..hi of the venue symbol in upper case, with their separators.
JoinUpper(parts, seps, lo, hi) ==
    Join([i \in 1..Len(parts) |-> UpperOf(parts[i])], seps, lo, hi)

\* The positions of the separator sep between the pieces.
SepAt(seps, sep) == {k \in 1..Len(seps) : seps[k] = sep}

\* base, quote and base-quote
Canonical(base, quote) == Returns(base, quote, base \o <<"-">> \o quote)

\* C20: split_symbol maps each venue's native format to (base, quote,
\* canonical), whatever the case of the input: binance and bybit give
\* (prefix, USDT, prefix-USD) for a symbol ending in USDT; okx gives (BASE,
\* USDT, BASE-USD) for BASE-USDT; upbit gives (BASE, QUOTE, BASE-QUOTE) for
\* QUOTE-BASE; bithumb and korbit for BASE_QUOTE and coinone for BASE-QUOTE give
\* (BASE, QUOTE, BASE-QUOTE); (binance, dogeusdt) gives (DOGE, USDT, DOGE-USD)
\* and (upbit, KRW-BTC) gives (BTC, KRW, BTC-KRW). The result is a function of
\* the two arguments.
C20_SplitSymbolFormats ==
    (fn_op = "split_symbol" /\ fn_out # None) =>
        LET x == fn_in.exchange
            ps == fn_in.parts
            ss == fn_in.seps
            n == Len(ps)
            out == fn_out[1]
            dashes == SepAt(ss, <<"-">>)
            unders == SepAt(ss, <<"_">>)
        IN /\ (x \in {"binance", "bybit"} /\ UpperOf(ps[n]) = USDT) =>
                LET prefix == IF n = 1 THEN <<>>
                              ELSE JoinUpper(ps, ss, 1, n - 1) \o ss[n - 1]
                IN out = Returns(prefix, USDT, prefix \o DashUSD)
           /\ (x = "okx" /\ Cardinality(dashes) = 1) =>
                LET k == CHOOSE i \in dashes : TRUE
                IN JoinUpper(ps, ss, k + 1, n) = USDT =>
                    out = Returns(JoinUpper(ps, ss, 1, k), USDT,
                                  JoinUpper(ps, ss, 1, k) \o DashUSD)
           /\ (x = "upbit" /\ Cardinality(dashes) = 1) =>
                LET k == CHOOSE i \in dashes : TRUE
                IN out = Canonical(JoinUpper(ps, ss, k + 1, n), JoinUpper(ps, ss, 1, k))
           /\ (x = "coinone" /\ Cardinality(dashes) = 1) =>
                LET k == CHOOSE i \in dashes : TRUE
                IN out = Canonical(JoinUpper(ps, ss, 1, k), JoinUpper(ps, ss, k + 1, n))
           /\ (x \in {"bithumb", "korbit"} /\ Cardinality(unders) = 1) =>
                LET k == CHOOSE i \in unders : TRUE
                IN out = Canonical(JoinUpper(ps, ss, 1, k), JoinUpper(ps, ss, k + 1, n))
           /\ (x = "upbit" /\ fn_in.venue_sym = <<"K", "R", "W", "-", "B", "T", "C">>) =>
                out = Canonical(<<"B", "T", "C">>, <<"K", "R", "W">>)
           /\ out = split_symbol(x, fn_in.venue_sym)

\* split_symbol("binance", "dogeusdt") has returned ("DOGE", "USDT", "DOGE-USD").
C20_Witness ==
    /\ fn_op = "split_symbol"
    /\ fn_in.exchange = "binance"
    /\ fn_in.venue_sym = <<"d", "o", "g", "e", "u", "s", "d", "t">>
    /\ fn_out = Some(Returns(<<"D", "O", "G", "E">>, USDT,
                             <<"D", "O", "G", "E", "-", "U", "S", "D">>))

\* ======================================================================
\* Book claims (BookSpec)
\* ======================================================================
\* The latest step handled a book message whose venue symbol matches no entry
\* of the streamer's symbol map.
UnmappedMessage ==
    /\ bk_last.kind = "book"
    /\ \A u \in DOMAIN BookSymbolMap :
        upper(BookSymbolMap[u]) # upper(bk_last.venue)

\* C14: on a message-multiplexed streamer (OKX, Upbit, Bithumb, Coinone,
\* Korbit) a message whose venue symbol matches no entry of the symbol map
\* publishes no event, leaves the book unchanged and keeps the connection open.
C14_UnmappedSymbolIgnored ==
    (~PerSymbol(bk_exchange) /\ UnmappedMessage) =>
        /\ bk_event = None
        /\ ~bk_last.changed
        /\ bk_pc = "read"

\* Coinone, its book filled by an earlier message, has just handled a message
\* for a venue symbol it does not map.
C14_Witness ==
    /\ bk_exchange = "coinone"
    /\ UnmappedMessage
    /\ DOMAIN lob.bids # {}
    /\ lob.last_update_id \in MsgSeqs
    /\ bk_pc = "read"

\* C17: in every reachable state no bid or ask map of a LocalOrderBook holds a
\* price whose quantity is 0, whether the levels came through upsert_side or
\* through a full replacement (REST bootstrap, full top-of-book message).
C17_NoZeroQuantity ==
    /\ \A p \in DOMAIN lob.bids : lob.bids[p] # 0
    /\ \A p \in DOMAIN lob.asks : lob.asks[p] # 0

\* ======================================================================
\* Symbol claims (SplitSpec), continued
\* ======================================================================
\* The call of split_symbol has ended.
SplitCalled == fn_op = "split_symbol" /\ fn_out # None

\* The venue symbol of the call does not have the format of the exchange of the
\* call: the exchange is none of main's, the separator of the venue does not
\* occur exactly once, or the quote of a global venue is not USDT.
Unrecognized ==
    LET x == fn_in.exchange
        ps == fn_in.parts
        ss == fn_in.seps
        n == Len(ps)
        dashes == SepAt(ss, <<"-">>)
        unders == SepAt(ss, <<"_">>)
    IN \/ x \notin Exchanges
       \/ x \in {"upbit", "coinone"} /\ Cardinality(dashes) # 1
       \/ x \in {"bithumb", "korbit"} /\ Cardinality(unders) # 1
       \/ x \in {"binance", "bybit"} /\ UpperOf(ps[n]) # USDT
       \/ x = "okx" /\ Cardinality(dashes) # 1
       \/ x = "okx" /\ Cardinality(dashes) = 1 /\
            LET k == CHOOSE i \in dashes : TRUE
            IN JoinUpper(ps, ss, k + 1, n) # USDT

\* C21: for every exchange name and every venue symbol that does not match the
\* exchange's format, split_symbol returns (venue_sym, "", venue_sym) with the
\* input unchanged, and it never raises.
C21_FallbackNeverRaises ==
    (SplitCalled /\ Unrecognized) =>
        fn_out[1] = Returns(fn_in.venue_sym, <<>>, fn_in.venue_sym)

\* split_symbol has returned something else than the fallback.
Recognized ==
    /\ SplitCalled
    /\ ~fn_out[1].raises
    /\ fn_out[1] # Returns(fn_in.venue_sym, <<>>, fn_in.venue_sym)

\* C22 as stated: for every (exchange, venue symbol) that split_symbol
\* recognizes, the canonical symbol equals base, a hyphen and quote of the same
\* result.
C22_CanonicalIsBaseDashQuote ==
    Recognized =>
        fn_out[1].normalized = fn_out[1].base \o <<"-">> \o fn_out[1].quote

\* C22, amended: the canonical symbol of a recognized pair equals base, a
\* hyphen and quote on the Korean venues; on the global venues the quote is
\* USDT and the canonical symbol is base, a hyphen and USD.
C22_CanonicalOfBaseQuote ==
    Recognized =>
        LET out == fn_out[1]
        IN IF fn_in.exchange \in GlobalExchanges
           THEN /\ out.quote = <<"U", "S", "D", "T">>
                /\ out.normalized = out.base \o <<"-", "U", "S", "D">>
           ELSE out.normalized = out.base \o <<"-">> \o out.quote

\* split_symbol("okx", "BTC-USDT") has returned ("BTC", "USDT", "BTC-USD").
C22_Witness ==
    /\ SplitCalled
    /\ fn_in.exchange = "okx"
    /\ fn_in.venue_sym = <<"B", "T", "C", "-", "U", "S", "D", "T">>
    /\ fn_out[1].base = <<"B", "T", "C">>
    /\ fn_out[1].quote = <<"U", "S", "D", "T">>
    /\ fn_out[1].normalized = <<"B", "T", "C", "-", "U", "S", "D">>

\* ======================================================================
\* Streamer claims, continued
\* ======================================================================
\* C23: for every streamer variant and every symbol map, including an empty
\* one, run() never returns normally: the streamer's task stays running, in
\* its connect / read / backoff loop.
C23_RunNeverReturns == task_state[exchange] = "running"

\* C24: in the Bybit streamer no incremental message is applied to a symbol's
\* book on a connection unless the REST snapshot of the same attempt succeeded
\* and replaced the book first; a snapshot response with a retCode other than 0
\* never leads to incremental messages being applied.
C24_NoUpdateWithoutBootstrap ==
    exchange = "bybit" =>
        \A t \in TaskIds : (pc[t] = "read" /\ pubOnConn[t]) => bootstrapped[t]

\* C27: a task starts a new pass of its loop (a new connection attempt) only
\* out of a sleep of BackoffSeconds, whether the previous connection ended by
\* an exception or by the read loop finishing normally.
C27_SleepBeforeEveryAttempt ==
    [][\A t \in TaskIds :
         (pc'[t] = StartPc(exchange) /\ pc[t] # StartPc(exchange)) =>
             (pc[t] = "sleep" /\ delay[t] = BackoffSeconds)]_vars

\* The task that serves symbol s: its own _one task in Binance and Bybit, the
\* single task of run() in the other variants.
Owner(s) == IF PerSymbol(exchange) THEN s ELSE 1

\* C26: under every interleaving of the tasks of a streamer each LocalOrderBook
\* is mutated by one task only: a per-symbol task of Binance and Bybit touches
\* only the book of its own symbol, the single task of a multiplexed streamer
\* only the books of its streamer's symbol_map, and a task that does not exist
\* touches nothing.
C26_OneWriterPerBook ==
    \A t \in TaskIds :
        /\ touched[t] \subseteq symbols
        /\ \A s \in touched[t] : t = Owner(s)
        /\ pc[t] = "none" => touched[t] = {}

\* Two per-symbol tasks have each just mutated the book of their own symbol.
C26_Witness ==
    /\ PerSymbol(exchange)
    /\ \E t1, t2 \in TaskIds :
        /\ t1 # t2
        /\ touched[t1] = {t1}
        /\ touched[t2] = {t2}
        /\ inbound[t1] = "book"
        /\ inbound[t2] = "book"

\* ======================================================================
\* Tag claims (TagsSpec)
\* ======================================================================
\* C29: for every event a streamer publishes under the symbol maps configured
\* in main, the symbol tag of the stored row, recomputed as
\* split_symbol(exchange, venue_symbol), equals the event's own canonical
\* symbol; and for every (canonical, venue symbol) entry of every configured
\* map, split_symbol(exchange, venue symbol) returns that canonical symbol.
C29_RowSymbolIsEventSymbol ==
    /\ (fn_op = "tags" /\ fn_out # None) =>
          /\ ~fn_out[1].skipped
          /\ fn_out[1].symbol = fn_in[1].symbol
    /\ \A e \in Exchanges :
          \A u \in DOMAIN symbol_map(e) :
             /\ ~split_symbol(e, symbol_map(e)[u]).raises
             /\ split_symbol(e, symbol_map(e)[u]).normalized = u

\* The row of Coinone's event for "DOGE-KRW", published with the venue symbol
\* "doge-krw", carries the tags DOGE-KRW, DOGE, KRW, KR.
C29_Witness ==
    /\ fn_op = "tags"
    /\ fn_in # None
    /\ fn_out # None
    /\ fn_in[1].exchange = "coinone"
    /\ fn_in[1].venue_symbol = <<"d", "o", "g", "e", "-", "k", "r", "w">>
    /\ fn_out[1].symbol = <<"D", "O", "G", "E", "-", "K", "R", "W">>
    /\ fn_out[1].base = <<"D", "O", "G", "E">>
    /\ fn_out[1].quote = KRW
    /\ fn_out[1].region = "KR"

\* ======================================================================
\* Book claims (BookSpec), continued
\* ======================================================================
\* C28: processing one inbound message is all-or-nothing for the book: either
\* both sides and last_update_id are updated and one event is published, or
\* the book (bids, asks, last_update_id) is exactly as before the message, also
\* when the message fails part-way.
C28_AllOrNothing ==
    bk_last.kind # "none" =>
        \/ bk_event # None /\ bk_event[1].seq = lob.last_update_id
        \/ ~bk_last.changed

\* The latest step handled a well-formed book message that resolves to the
\* book of the task: every message of a per-symbol task, a message for a
\* mapped venue symbol on a multiplexed streamer.
ResolvedMessage ==
    /\ bk_last.kind = "book"
    /\ PerSymbol(bk_exchange) \/ ~UnmappedMessage

\* C25: after each inbound message that is processed without error and
\* resolves to an owned symbol, one event is published whose depth is the
\* top-20 snapshot of the book as this message's update left it; the event's
\* seq equals the book's last_update_id and the depth's last_update_id, and
\* each side of the depth has at most 20 levels.
C25_EventOfUpdatedBook ==
    ResolvedMessage =>
        /\ bk_event # None
        /\ bk_pc = "read"
        /\ LET ev == bk_event[1]
           IN /\ ev.depth = snapshot(lob, TopN)
              /\ ev.seq = lob.last_update_id
              /\ ev.depth.last_update_id = ev.seq
              /\ Len(ev.depth.bids) <= TopN
              /\ Len(ev.depth.asks) <= TopN

\* OKX has just replaced its book by the levels of a message and published an
\* event with a level on each side.
C25_Witness ==
    /\ bk_exchange = "okx"
    /\ ResolvedMessage
    /\ bk_last.changed
    /\ bk_event # None
    /\ Len(bk_event[1].depth.bids) >= 1
    /\ Len(bk_event[1].depth.asks) >= 1
    /\ bk_event[1].seq \in MsgSeqs

\* C30: a reconnect of the Binance streamer leaves the book unchanged: no step
\* between the end of a connection (by an exception or a clean close) and the
\* first message of the next connection changes a price level or
\* last_update_id, so a level the book held when the connection ended is still
\* held when that message is applied.
C30_ReconnectKeepsBook ==
    [][(bk_exchange = "binance" /\ bk_last'.kind = "none") => lob' = lob]_vars

\* Binance is back in its read loop on a new connection, before the first
\* message, with the levels and the last_update_id of the previous connection.
C30_Witness ==
    /\ bk_exchange = "binance"
    /\ bk_pc = "read"
    /\ bk_last.kind = "none"
    /\ DOMAIN lob.bids # {}
    /\ DOMAIN lob.asks # {}
    /\ lob.last_update_id \in MsgSeqs

====
